---- MODULE Spec2Model ----
(***************************************************************************)
(* Model of src/main.py: the CSV Record Store (save_data_to_csv,           *)
(* load_data_from_csv) and the orchestration script main().                *)
(*                                                                         *)
(* Text is a sequence of one-character strings. Python values are tagged   *)
(* records with the uniform shape [k, s, keys, items].                     *)
(***************************************************************************)
EXTENDS Integers, Sequences, FiniteSets, TLC

\* ------------------------------------------------------------------ bounds
\* at most this many records in a batch handed to save_data_to_csv
MaxBatch == 2
\* at most this many save_data_to_csv calls in one behaviour of SpecStore
MaxOps == 2
\* at most this many executions of main() against the same data.csv
MaxRuns == 2

\* ------------------------------------------------------------ characters
DQUOTE == "\""
COMMA == ","
CR == "\r"
LF == "\n"
\* marker fed to the csv reader at the end of every line (EOL in _csv.c)
EOL == "EOL"

\* ---------------------------------------------------------- Python values
PyNone == [k |-> "none", s |-> <<>>, keys |-> <<>>, items |-> <<>>]
PyStr(s) == [k |-> "str", s |-> s, keys |-> <<>>, items |-> <<>>]
PyNum(s) == [k |-> "num", s |-> s, keys |-> <<>>, items |-> <<>>]
PyList(items) == [k |-> "list", s |-> <<>>, keys |-> <<>>, items |-> items]
PyDict(keys, items) == [k |-> "dict", s |-> <<>>, keys |-> keys, items |-> items]

\* the key None that csv.DictReader uses as restkey
NoneKey == <<"None">>

\* Python truthiness of a value (`not data` is ~Truthy(data))
Truthy(v) ==
    CASE v.k = "none" -> FALSE
      [] v.k = "str" -> v.s # <<>>
      [] v.k = "num" -> v.s # <<"0">>
      [] v.k = "list" -> v.items # <<>>
      [] v.k = "dict" -> v.keys # <<>>

\* position of key in a dict's key list, 0 when missing
RECURSIVE KeyIndex(_, _, _)
KeyIndex(keys, key, i) ==
    IF i > Len(keys) THEN 0
    ELSE IF keys[i] = key THEN i ELSE KeyIndex(keys, key, i + 1)

HasKey(d, key) == KeyIndex(d.keys, key, 1) # 0

\* d[key] for a key that is present
DictGet(d, key) == d.items[KeyIndex(d.keys, key, 1)]

\* d[key] = v : a new key goes last, an existing key keeps its position
DictSet(d, key, v) ==
    IF HasKey(d, key)
    THEN PyDict(d.keys, [d.items EXCEPT ![KeyIndex(d.keys, key, 1)] = v])
    ELSE PyDict(Append(d.keys, key), Append(d.items, v))

\* dict equality of Python: same key set, same value under every key
DictEq(d, e) ==
    /\ d.k = "dict" /\ e.k = "dict"
    /\ Len(d.keys) = Len(e.keys)
    /\ \A i \in 1..Len(d.keys) :
          HasKey(e, d.keys[i]) /\ DictGet(e, d.keys[i]) = d.items[i]

\* list-of-dict equality of Python
BatchEq(a, b) ==
    /\ a.k = "list" /\ b.k = "list"
    /\ Len(a.items) = Len(b.items)
    /\ \A i \in 1..Len(a.items) : DictEq(a.items[i], b.items[i])

\* str(v) as the csv writer applies it to a field (None is written as '')
FieldText(v) == IF v.k = "none" THEN <<>> ELSE v.s

\* ------------------------------------------------------------- csv writer
\* QUOTE_MINIMAL: a field is quoted when it holds the delimiter, the quote
\* character or a character of the line terminator "\r\n"
NeedsQuote(s) == \E i \in 1..Len(s) : s[i] \in {COMMA, DQUOTE, CR, LF}

\* doublequote: every quote character of the field is written twice
RECURSIVE DoubleQuotes(_)
DoubleQuotes(s) ==
    IF s = <<>> THEN <<>>
    ELSE (IF Head(s) = DQUOTE THEN <<DQUOTE, DQUOTE>> ELSE <<Head(s)>>)
         \o DoubleQuotes(Tail(s))

WriteField(s) ==
    IF NeedsQuote(s) THEN <<DQUOTE>> \o DoubleQuotes(s) \o <<DQUOTE>> ELSE s

RECURSIVE JoinFields(_)
JoinFields(fs) ==
    IF fs = <<>> THEN <<>>
    ELSE IF Len(fs) = 1 THEN WriteField(fs[1])
    ELSE WriteField(fs[1]) \o <<COMMA>> \o JoinFields(Tail(fs))

\* csv.writer.writerow: a row whose only field is empty is written as ""
WriteRow(fs) ==
    (IF fs = <<<<>>>> THEN <<DQUOTE, DQUOTE>> ELSE JoinFields(fs)) \o <<CR, LF>>

\* DictWriter._dict_to_list: the row's values in fieldnames order, '' for a
\* missing key; a non-dict row or a key outside fieldnames raises
RowWritable(row, fieldnames) ==
    /\ row.k = "dict"
    /\ \A i \in 1..Len(row.keys) : KeyIndex(fieldnames, row.keys[i], 1) # 0

DictToList(row, fieldnames) ==
    [i \in 1..Len(fieldnames) |->
        IF HasKey(row, fieldnames[i])
        THEN FieldText(DictGet(row, fieldnames[i])) ELSE <<>>]

\* the rows written before the first row that raises, and whether one raised
RECURSIVE WriteRows(_, _)
WriteRows(rows, fieldnames) ==
    IF rows = <<>> THEN [text |-> <<>>, raised |-> FALSE]
    ELSE IF ~RowWritable(Head(rows), fieldnames)
         THEN [text |-> <<>>, raised |-> TRUE]
         ELSE LET rest == WriteRows(Tail(rows), fieldnames)
              IN [text |-> WriteRow(DictToList(Head(rows), fieldnames)) \o rest.text,
                  raised |-> rest.raised]

\* ------------------------------------------------------------------ files
Absent == [exists |-> FALSE, text |-> <<>>]
FileOf(text) == [exists |-> TRUE, text |-> text]

\* os.path.exists
PathExists(f) == f.exists

\* data[0].keys() succeeds: data is a list whose first element is a dict
FirstHasKeys(data) == data.k = "list" /\ data.items[1].k = "dict"

\* save_data_to_csv with the emptiness test placed after the open(): an
\* empty batch then creates the file
save_data_to_csv_open_first(data, f) ==
    IF ~Truthy(data) THEN [file |-> FileOf(f.text), raised |-> FALSE]
    ELSE IF ~FirstHasKeys(data) THEN [file |-> f, raised |-> TRUE]
    ELSE LET fieldnames == data.items[1].keys
             header == IF ~PathExists(f) THEN WriteRow(fieldnames) ELSE <<>>
             body == WriteRows(data.items, fieldnames)
         IN [file |-> FileOf(f.text \o header \o body.text),
             raised |-> body.raised]

\* save_data_to_csv(data, file_path) on file f: the file afterwards and
\* whether the call raised
save_data_to_csv(data, f) ==
    IF ~Truthy(data) THEN [file |-> f, raised |-> FALSE]
    ELSE IF ~FirstHasKeys(data) THEN [file |-> f, raised |-> TRUE]
    ELSE LET fieldnames == data.items[1].keys
             header == IF ~PathExists(f) THEN WriteRow(fieldnames) ELSE <<>>
             body == WriteRows(data.items, fieldnames)
         IN [file |-> FileOf(f.text \o header \o body.text),
             raised |-> body.raised]

\* ------------------------------------------------------------- text mode
\* open(file_path, mode='r') without newline='': universal newlines, so
\* "\r\n" and a lone "\r" both reach the reader as "\n"
\* what character i of the text becomes: the "\n" of a "\r\n" is dropped,
\* a "\r" is read as "\n"
TranslateAt(t, i) ==
    IF t[i] = LF /\ i > 1 /\ t[i - 1] = CR THEN <<>>
    ELSE IF t[i] = CR THEN <<LF>>
    ELSE <<t[i]>>

\* the translation of characters lo..hi, halving the range
RECURSIVE TranslateRange(_, _, _)
TranslateRange(t, lo, hi) ==
    IF lo > hi THEN <<>>
    ELSE IF lo = hi THEN TranslateAt(t, lo)
    ELSE LET mid == (lo + hi) \div 2
         IN TranslateRange(t, lo, mid) \o TranslateRange(t, mid + 1, hi)

TranslateNewlines(t) == TranslateRange(t, 1, Len(t))

\* ------------------------------------------------------------- csv reader
\* the parser state of csv.reader: state, the field being collected, the
\* fields of the current record, and the records returned so far
ReaderInit == [state |-> "START_RECORD", field |-> <<>>, fields |-> <<>>, rows |-> <<>>]

SaveField(r) == [r EXCEPT !.fields = Append(r.fields, r.field), !.field = <<>>]

AfterNewline(c) == IF c = EOL THEN "START_RECORD" ELSE "EAT_CRNL"

\* parse_process_char of the csv reader (no escapechar, not strict)
ProcessChar(r, c) ==
    CASE r.state \in {"START_RECORD", "START_FIELD"} ->
            IF r.state = "START_RECORD" /\ c = EOL THEN r
            ELSE IF r.state = "START_RECORD" /\ c \in {LF, CR}
                 THEN [r EXCEPT !.state = "EAT_CRNL"]
            ELSE IF c \in {LF, CR, EOL}
                 THEN [SaveField(r) EXCEPT !.state = AfterNewline(c)]
            ELSE IF c = DQUOTE THEN [r EXCEPT !.state = "IN_QUOTED_FIELD"]
            ELSE IF c = COMMA THEN [SaveField(r) EXCEPT !.state = "START_FIELD"]
            ELSE [r EXCEPT !.field = Append(r.field, c), !.state = "IN_FIELD"]
      [] r.state = "IN_FIELD" ->
            IF c \in {LF, CR, EOL}
            THEN [SaveField(r) EXCEPT !.state = AfterNewline(c)]
            ELSE IF c = COMMA THEN [SaveField(r) EXCEPT !.state = "START_FIELD"]
            ELSE [r EXCEPT !.field = Append(r.field, c)]
      [] r.state = "IN_QUOTED_FIELD" ->
            IF c = EOL THEN r
            ELSE IF c = DQUOTE THEN [r EXCEPT !.state = "QUOTE_IN_QUOTED_FIELD"]
            ELSE [r EXCEPT !.field = Append(r.field, c)]
      [] r.state = "QUOTE_IN_QUOTED_FIELD" ->
            IF c = DQUOTE
            THEN [r EXCEPT !.field = Append(r.field, c), !.state = "IN_QUOTED_FIELD"]
            ELSE IF c = COMMA THEN [SaveField(r) EXCEPT !.state = "START_FIELD"]
            ELSE IF c \in {LF, CR, EOL}
                 THEN [SaveField(r) EXCEPT !.state = AfterNewline(c)]
            ELSE [r EXCEPT !.field = Append(r.field, c), !.state = "IN_FIELD"]
      [] r.state = "EAT_CRNL" ->
            IF c \in {LF, CR} THEN r
            ELSE IF c = EOL THEN [r EXCEPT !.state = "START_RECORD"]
            ELSE [r EXCEPT !.state = "ERROR"]
      [] OTHER -> r

\* Reader_iternext at the end of a line: the record is returned once the
\* state is back at START_RECORD, otherwise the next line continues it
EndOfLine(r) ==
    LET q == ProcessChar(r, EOL)
    IN IF q.state = "START_RECORD"
       THEN [q EXCEPT !.rows = Append(q.rows, q.fields), !.fields = <<>>]
       ELSE q

\* end of input inside a record: the pending field is saved and the record
\* returned when a field is being collected or a quoted field is open
EndOfInput(r) ==
    IF r.state # "START_RECORD" /\ (r.field # <<>> \/ r.state = "IN_QUOTED_FIELD")
    THEN [r EXCEPT !.rows = Append(r.rows, Append(r.fields, r.field))]
    ELSE r

\* the last character of the line that starts at position start: the next
\* "\n", or the end of the text
LineEnd(t, start) ==
    LET nl == {i \in start..Len(t) : t[i] = LF}
    IN IF nl = {} THEN Len(t) ELSE CHOOSE i \in nl : \A j \in nl : i <= j

\* the characters i..e of one line fed to the parser
RECURSIVE FeedLine(_, _, _, _)
FeedLine(t, i, e, r) ==
    IF i > e \/ r.state = "ERROR" THEN r
    ELSE FeedLine(t, i + 1, e, ProcessChar(r, t[i]))

\* list(csv.reader(f)) over the lines of the text from position start on.
\* The result is the final parser state: its rows, or the state "ERROR"
\* where the reader raises csv.Error
RECURSIVE ReadRows(_, _, _)
ReadRows(t, start, r) ==
    IF start > Len(t) THEN EndOfInput(r)
    ELSE LET e == LineEnd(t, start)
             q == FeedLine(t, start, e, r)
         IN IF q.state = "ERROR" THEN q
            ELSE ReadRows(t, e + 1, EndOfLine(q))

\* csv.DictReader: one row as a dict over fieldnames; surplus values go
\* under the key None, missing ones are None
RECURSIVE ZipDict(_, _, _, _)
ZipDict(fieldnames, row, i, d) ==
    IF i > Len(fieldnames) \/ i > Len(row) THEN d
    ELSE ZipDict(fieldnames, row, i + 1, DictSet(d, fieldnames[i], PyStr(row[i])))

RECURSIVE FillMissing(_, _, _)
FillMissing(fieldnames, i, d) ==
    IF i > Len(fieldnames) THEN d
    ELSE FillMissing(fieldnames, i + 1, DictSet(d, fieldnames[i], PyNone))

RowToDict(fieldnames, row) ==
    LET d == ZipDict(fieldnames, row, 1, PyDict(<<>>, <<>>))
        lf == Len(fieldnames)
        lr == Len(row)
    IN IF lf < lr
       THEN DictSet(d, NoneKey, PyList([j \in 1..(lr - lf) |-> PyStr(row[lf + j])]))
       ELSE IF lf > lr THEN FillMissing(fieldnames, lr + 1, d)
       ELSE d

\* list(csv.DictReader(f)): the first row is the header, blank rows are
\* skipped
RECURSIVE DictRows(_, _)
DictRows(fieldnames, rows) ==
    IF rows = <<>> THEN <<>>
    ELSE IF Head(rows) = <<>> THEN DictRows(fieldnames, Tail(rows))
    ELSE <<RowToDict(fieldnames, Head(rows))>> \o DictRows(fieldnames, Tail(rows))

DictReader(t) ==
    LET r == ReadRows(t, 1, ReaderInit)
    IN IF r.state = "ERROR" THEN [rows |-> <<>>, raised |-> TRUE]
       ELSE IF r.rows = <<>> THEN [rows |-> <<>>, raised |-> FALSE]
       ELSE [rows |-> DictRows(r.rows[1], Tail(r.rows)), raised |-> FALSE]

\* load_data_from_csv without the os.path.exists test, opening with mode
\* 'a+': a missing file is created
load_data_from_csv_creating(f) ==
    LET d == DictReader(TranslateNewlines(f.text))
    IN [ret |-> PyList(d.rows), file |-> FileOf(f.text), raised |-> d.raised]

\* load_data_from_csv opening with mode 'w+': the file is truncated before
\* it is read
load_data_from_csv_truncating(f) ==
    IF ~PathExists(f) THEN [ret |-> PyList(<<>>), file |-> f, raised |-> FALSE]
    ELSE [ret |-> PyList(<<>>), file |-> FileOf(<<>>), raised |-> FALSE]

\* load_data_from_csv(file_path) on file f: the value returned, the file
\* afterwards, and whether the call raised
load_data_from_csv(f) ==
    IF ~PathExists(f) THEN [ret |-> PyList(<<>>), file |-> f, raised |-> FALSE]
    ELSE LET d == DictReader(TranslateNewlines(f.text))
         IN [ret |-> PyList(d.rows), file |-> f, raised |-> d.raised]

\* --------------------------------------------------------------- state
VARIABLES
    file,       \* data.csv (STORAGE_FILE): whether it exists, and its text
    op,         \* the last Record Store call: "none", "save" or "load"
    arg,        \* the data passed to the last save_data_to_csv
    ret,        \* the value returned by the last load_data_from_csv
    raised,     \* whether the last Record Store call raised
    before,     \* the file as it was before the last Record Store call
    prev,       \* op, ret and file of the call before the last one
    written,    \* the records of all batches saved so far, in call order
    uniform,    \* all records saved so far have the first one's field set
    nsaves      \* number of save_data_to_csv calls so far

storeVars == <<file, op, arg, ret, raised, before, prev, written, uniform, nsaves>>

\* ------------------------------------------------------- sampled inputs
\* records over the field sets {a} and {a, b}; their values cover the
\* empty string, a carriage return, and the delimiter, quote and newline
\* characters; RecBA has the fields of RecAB in the other order
RecA(v) == PyDict(<<<<"a">>>>, <<PyStr(v)>>)
RecAB(v, w) == PyDict(<<<<"a">>, <<"b">>>>, <<PyStr(v), PyStr(w)>>)
RecBA(w, v) == PyDict(<<<<"b">>, <<"a">>>>, <<PyStr(w), PyStr(v)>>)

RecordsA == {RecA(<<>>), RecA(<<"x", CR>>)}
RecAB1 == RecAB(<<"x">>, <<COMMA, DQUOTE, LF>>)
RecBA1 == RecBA(<<>>, <<"z">>)

RECURSIVE SeqsUpTo(_, _)
SeqsUpTo(S, n) ==
    IF n = 0 THEN {<<>>}
    ELSE LET shorter == SeqsUpTo(S, n - 1)
         IN shorter \cup {Append(q, x) : q \in {t \in shorter : Len(t) = n - 1}, x \in S}

\* the batches handed to save_data_to_csv: every batch of up to MaxBatch
\* records over the field set {a}, two batches over {a, b}, a batch of one
\* record without fields, and a batch whose second record has a field the
\* first lacks
Batches ==
    {PyList(q) : q \in SeqsUpTo(RecordsA, MaxBatch)}
    \cup {PyList(<<RecAB1>>),
          PyList(<<RecAB1, RecBA1>>),
          PyList(<<PyDict(<<>>, <<>>)>>),
          PyList(<<RecA(<<"x">>), RecAB(<<"y">>, <<"z">>)>>)}

\* ------------------------------------------------------ history helpers
KeySet(d) == {d.keys[i] : i \in 1..Len(d.keys)}

\* the records of data all have the field set of the record first
SameFields(data, first) ==
    \A i \in 1..Len(data.items) :
        data.items[i].k = "dict" /\ KeySet(data.items[i]) = KeySet(first)

\* the record that fixes the field set: the first ever written, else the
\* first of this batch
FirstRecord(data) == IF written # <<>> THEN written[1] ELSE data.items[1]

StoreInit ==
    /\ file = Absent
    /\ op = "none"
    /\ arg = PyNone
    /\ ret = PyNone
    /\ raised = FALSE
    /\ before = Absent
    /\ prev = [op |-> "none", ret |-> PyNone, file |-> Absent]
    /\ written = <<>>
    /\ uniform = TRUE
    /\ nsaves = 0

\* one call save_data_to_csv(data) on data.csv, with its bookkeeping
CallSave(data) ==
    LET out == save_data_to_csv(data, file)
    IN /\ file' = out.file
       /\ op' = "save"
       /\ arg' = data
       /\ raised' = out.raised
       /\ before' = file
       /\ prev' = [op |-> op, ret |-> ret, file |-> before]
       /\ written' = IF data.k = "list" /\ ~out.raised
                     THEN written \o data.items ELSE written
       /\ uniform' = (uniform /\ ~out.raised /\
                      (data.k = "list" /\ (data.items # <<>> =>
                                             SameFields(data, FirstRecord(data)))))
       /\ nsaves' = nsaves + 1
       /\ UNCHANGED ret

\* one call load_data_from_csv() on data.csv, with its bookkeeping
CallLoad ==
    LET out == load_data_from_csv(file)
    IN /\ file' = out.file
       /\ ret' = out.ret
       /\ op' = "load"
       /\ raised' = out.raised
       /\ before' = file
       /\ prev' = [op |-> op, ret |-> ret, file |-> before]
       /\ UNCHANGED <<arg, written, uniform, nsaves>>

\* ------------------------------------------------------------------ JSON
\* The generator's text for the structuring call is a sequence of lexical
\* tokens [t, s]: punctuation, a string or number literal with its
\* content, null, or a word that is no JSON token.
Tok(t) == [t |-> t, s |-> <<>>]
TStr(s) == [t |-> "str", s |-> s]
TNum(s) == [t |-> "num", s |-> s]
TWord(s) == [t |-> "word", s |-> s]

Fail == [ok |-> FALSE, val |-> PyNone, next |-> 0]

RECURSIVE ParseValue(_, _)
RECURSIVE ParseElements(_, _, _)
RECURSIVE ParseMembers(_, _, _)

\* one JSON value starting at token i: the value and the next position
ParseValue(toks, i) ==
    IF i > Len(toks) THEN Fail
    ELSE CASE toks[i].t = "str" -> [ok |-> TRUE, val |-> PyStr(toks[i].s), next |-> i + 1]
           [] toks[i].t = "num" -> [ok |-> TRUE, val |-> PyNum(toks[i].s), next |-> i + 1]
           [] toks[i].t = "null" -> [ok |-> TRUE, val |-> PyNone, next |-> i + 1]
           [] toks[i].t = "[" ->
                IF i + 1 <= Len(toks) /\ toks[i + 1].t = "]"
                THEN [ok |-> TRUE, val |-> PyList(<<>>), next |-> i + 2]
                ELSE ParseElements(toks, i + 1, <<>>)
           [] toks[i].t = "{" ->
                IF i + 1 <= Len(toks) /\ toks[i + 1].t = "}"
                THEN [ok |-> TRUE, val |-> PyDict(<<>>, <<>>), next |-> i + 2]
                ELSE ParseMembers(toks, i + 1, PyDict(<<>>, <<>>))
           [] OTHER -> Fail

\* the elements of an array after "[" or ",": value, then "," or "]"
ParseElements(toks, i, acc) ==
    LET v == ParseValue(toks, i)
    IN IF ~v.ok \/ v.next > Len(toks) THEN Fail
       ELSE IF toks[v.next].t = "]"
            THEN [ok |-> TRUE, val |-> PyList(Append(acc, v.val)), next |-> v.next + 1]
       ELSE IF toks[v.next].t = ","
            THEN ParseElements(toks, v.next + 1, Append(acc, v.val))
       ELSE Fail

\* the members of an object after "{" or ",": string, ":", value, then ","
\* or "}"; a repeated key keeps its last value
ParseMembers(toks, i, acc) ==
    IF i + 1 > Len(toks) \/ toks[i].t # "str" \/ toks[i + 1].t # ":" THEN Fail
    ELSE LET v == ParseValue(toks, i + 2)
         IN IF ~v.ok \/ v.next > Len(toks) THEN Fail
            ELSE IF toks[v.next].t = "}"
                 THEN [ok |-> TRUE, val |-> DictSet(acc, toks[i].s, v.val), next |-> v.next + 1]
            ELSE IF toks[v.next].t = ","
                 THEN ParseMembers(toks, v.next + 1, DictSet(acc, toks[i].s, v.val))
            ELSE Fail

\* json.loads(text): ok is FALSE where it raises JSONDecodeError, also for
\* text left over after the value
JsonLoads(toks) ==
    LET v == ParseValue(toks, 1)
    IN IF v.ok /\ v.next = Len(toks) + 1 THEN [ok |-> TRUE, val |-> v.val]
       ELSE [ok |-> FALSE, val |-> PyNone]

\* json.dumps(value, indent=2) as tokens; the key None is written "null"
RECURSIVE JsonDumps(_)
RECURSIVE DumpElements(_)
RECURSIVE DumpMembers(_, _)
JsonDumps(v) ==
    CASE v.k = "str" -> <<TStr(v.s)>>
      [] v.k = "num" -> <<TNum(v.s)>>
      [] v.k = "none" -> <<Tok("null")>>
      [] v.k = "list" -> <<Tok("[")>> \o DumpElements(v.items) \o <<Tok("]")>>
      [] v.k = "dict" -> <<Tok("{")>> \o DumpMembers(v.keys, v.items) \o <<Tok("}")>>

DumpElements(items) ==
    IF items = <<>> THEN <<>>
    ELSE IF Len(items) = 1 THEN JsonDumps(items[1])
    ELSE JsonDumps(items[1]) \o <<Tok(",")>> \o DumpElements(Tail(items))

DumpMembers(keys, items) ==
    IF keys = <<>> THEN <<>>
    ELSE LET key == IF keys[1] = NoneKey THEN <<"n", "u", "l", "l">> ELSE keys[1]
             m == <<TStr(key), Tok(":")>> \o JsonDumps(items[1])
         IN IF Len(keys) = 1 THEN m
            ELSE m \o <<Tok(",")>> \o DumpMembers(Tail(keys), Tail(items))

\* needle in hay (Python's `in` on strings)
IsSubstring(needle, hay) ==
    \E i \in 0..(Len(hay) - Len(needle)) :
        SubSeq(hay, i + 1, i + Len(needle)) = needle

\* ----------------------------------------------------- generator outputs
user_input == "Yesterday I had a meeting about project X from 2pm to 3pm. I also need to schedule a follow-up at 10am tomorrow."
user_request == "What is my schedule for tomorrow?"

NEED_DATA_UPDATE == <<"N", "E", "E", "D", "_", "D", "A", "T", "A", "_", "U", "P", "D", "A", "T", "E">>
NO_UPDATE_NEEDED == <<"N", "O", "_", "U", "P", "D", "A", "T", "E", "_", "N", "E", "E", "D", "E", "D">>

KDate == <<"d", "a", "t", "e">>
KTitle == <<"t", "i", "t", "l", "e">>
KDetail == <<"d", "e", "t", "a", "i", "l">>
KNote == <<"n", "o", "t", "e">>

\* the tokens of {"date": d, "title": t, "detail": x}
ObjTokens(d, t, x) ==
    <<Tok("{"), TStr(KDate), Tok(":"), TStr(d), Tok(","),
      TStr(KTitle), Tok(":"), TStr(t), Tok(","),
      TStr(KDetail), Tok(":"), TStr(x), Tok("}")>>

Obj1 == ObjTokens(<<"1">>, <<"m">>, <<"2", "p", "m">>)
Obj2 == ObjTokens(<<>>, <<"f", COMMA, DQUOTE>>, <<"1", "0", LF, "a", "m">>)
ObjCR == ObjTokens(<<"2">>, <<"c">>, <<"x", CR, "y">>)
ObjNote == <<Tok("{"), TStr(KDate), Tok(":"), TStr(<<"3">>), Tok(","),
             TStr(KNote), Tok(":"), TStr(<<"n">>), Tok("}")>>

\* texts the structuring call is given to return: arrays of activity
\* objects, JSON of another shape, and text that is not JSON
ArraySamples ==
    {<<Tok("["), Tok("]")>>,
     <<Tok("[")>> \o Obj1 \o <<Tok(",")>> \o Obj2 \o <<Tok("]")>>,
     <<Tok("[")>> \o ObjCR \o <<Tok("]")>>}

ShapeSamples ==
    {Obj1,
     <<TNum(<<"5">>)>>,
     <<Tok("null")>>,
     <<Tok("["), TNum(<<"5">>), Tok("]")>>,
     <<Tok("["), Tok("{"), Tok("}"), Tok("]")>>,
     <<Tok("[")>> \o Obj1 \o <<Tok(",")>> \o ObjNote \o <<Tok("]")>>}

NonJsonSamples ==
    {<<TWord(<<"not">>), TWord(<<"json">>)>>,
     <<>>,
     <<Tok("[")>> \o Obj1 \o <<Tok(",")>>,
     <<Tok("[")>> \o Obj1 \o <<Tok(","), Tok("]")>>,
     <<TWord(<<"Here">>)>> \o <<Tok("[")>> \o Obj1 \o <<Tok("]")>>,
     <<Tok("[")>> \o Obj1 \o <<Tok("]"), TWord(<<"Done">>)>>}

JsonTexts == ArraySamples \cup ShapeSamples \cup NonJsonSamples

ExtractTexts == {"1: meeting 2pm", "no activities"}

ReactTexts ==
    {NEED_DATA_UPDATE,
     NO_UPDATE_NEEDED,
     <<"I", " ">> \o NEED_DATA_UPDATE \o <<".">>,
     <<>>,
     SubSeq(NEED_DATA_UPDATE, 1, 9),
     <<"n", "e", "e", "d", "_", "d", "a", "t", "a", "_", "u", "p", "d", "a", "t", "e">>}

AnswerTexts == {"follow-up at 10am", "nothing scheduled"}

\* ----------------------------------------------------------- main() state
VARIABLES
    pc,                     \* position in main(): the next step to run
    run,                    \* number of executions of main() started
    extracted_activities,   \* main.py:82
    json_str,               \* main.py:92
    activities_data,        \* main.py:94, 96
    current_memory,         \* main.py:104
    react_response,         \* main.py:118
    branch,                 \* "A" (line 120 true), "B" (else), "none" before
    updated_data,           \* main.py:122
    augment_prompt,         \* main.py:125, 141: the data embedded in it
    schedule_report,        \* main.py:133, 149
    stdout,                 \* the lines printed so far in this run
    calls,                  \* the prompts passed to query_llm in this run
    trace,                  \* the steps of this run, in order
    file0                   \* data.csv as it was when this run started

mainVars == <<pc, run, extracted_activities, json_str, activities_data,
              current_memory, react_response, branch, updated_data,
              augment_prompt, schedule_report, stdout, calls, trace, file0>>

vars == <<storeVars, mainVars>>

\* the locals of main() before any step of a run
Locals ==
    /\ extracted_activities = ""
    /\ json_str = <<>>
    /\ activities_data = PyNone
    /\ current_memory = PyNone
    /\ react_response = <<>>
    /\ branch = "none"
    /\ updated_data = PyNone
    /\ augment_prompt = <<>>
    /\ schedule_report = ""
    /\ stdout = <<>>
    /\ calls = <<>>
    /\ trace = <<>>

MainIdle == pc = "idle" /\ run = 0 /\ file0 = Absent /\ Locals

Init == StoreInit /\ pc = "extract" /\ run = 1 /\ file0 = Absent /\ Locals

\* a prompt: which of the four templates, and the text embedded in it
Prompt(kind, embed) == [kind |-> kind, embed |-> embed]

\* main.py:74-82  extracted_activities = query_llm(extract_prompt)
Extract ==
    /\ pc = "extract"
    /\ \E text \in ExtractTexts : extracted_activities' = text
    /\ calls' = Append(calls, Prompt("extract", <<user_input>>))
    /\ trace' = Append(trace, "llm_extract")
    /\ pc' = "structure"
    /\ UNCHANGED <<storeVars, run, json_str, activities_data, current_memory,
                   react_response, branch, updated_data, augment_prompt,
                   schedule_report, stdout, file0>>

\* main.py:85-92  json_str = query_llm(json_prompt)
Structure ==
    /\ pc = "structure"
    /\ \E text \in JsonTexts : json_str' = text
    /\ calls' = Append(calls, Prompt("json", <<extracted_activities>>))
    /\ trace' = Append(trace, "llm_json")
    /\ pc' = "parse"
    /\ UNCHANGED <<storeVars, run, extracted_activities, activities_data,
                   current_memory, react_response, branch, updated_data,
                   augment_prompt, schedule_report, stdout, file0>>

\* ParseJson without the try/except: JSONDecodeError ends the run
ParseJsonNoFallback ==
    /\ pc = "parse"
    /\ IF JsonLoads(json_str).ok
       THEN activities_data' = JsonLoads(json_str).val /\ pc' = "save"
       ELSE activities_data' = activities_data /\ pc' = "raised"
    /\ UNCHANGED <<storeVars, run, extracted_activities, json_str,
                   current_memory, react_response, branch, updated_data,
                   augment_prompt, schedule_report, stdout, calls, trace, file0>>

\* main.py:93-96  json.loads with the JSONDecodeError fallback
ParseJson ==
    /\ pc = "parse"
    /\ activities_data' = IF JsonLoads(json_str).ok
                          THEN JsonLoads(json_str).val ELSE PyList(<<>>)
    /\ pc' = "save"
    /\ UNCHANGED <<storeVars, run, extracted_activities, json_str,
                   current_memory, react_response, branch, updated_data,
                   augment_prompt, schedule_report, stdout, calls, trace, file0>>

\* main.py:100-104  save_data_to_csv(activities_data); an exception ends
\* the run, otherwise current_memory = activities_data
StoreWrite ==
    /\ pc = "save"
    /\ CallSave(activities_data)
    /\ trace' = Append(trace, "save")
    /\ IF save_data_to_csv(activities_data, file).raised
       THEN pc' = "raised" /\ UNCHANGED current_memory
       ELSE pc' = "decide" /\ current_memory' = activities_data
    /\ UNCHANGED <<run, extracted_activities, json_str, activities_data,
                   react_response, branch, updated_data, augment_prompt,
                   schedule_report, stdout, calls, file0>>

\* main.py:107-120  react_response = query_llm(react_prompt) and the test
\* "NEED_DATA_UPDATE" in react_response
Decide ==
    /\ pc = "decide"
    /\ \E text \in ReactTexts :
          /\ react_response' = text
          /\ branch' = IF IsSubstring(NEED_DATA_UPDATE, text) THEN "A" ELSE "B"
          /\ pc' = IF IsSubstring(NEED_DATA_UPDATE, text) THEN "retrieve" ELSE "answer"
    /\ calls' = Append(calls, Prompt("react", <<user_request>>))
    /\ trace' = Append(trace, "llm_react")
    /\ UNCHANGED <<storeVars, run, extracted_activities, json_str,
                   activities_data, current_memory, updated_data,
                   augment_prompt, schedule_report, stdout, file0>>

\* main.py:122  updated_data = load_data_from_csv()
Retrieve ==
    /\ pc = "retrieve"
    /\ CallLoad
    /\ updated_data' = load_data_from_csv(file).ret
    /\ trace' = Append(trace, "load")
    /\ pc' = "answer"
    /\ UNCHANGED <<run, extracted_activities, json_str, activities_data,
                   current_memory, react_response, branch, augment_prompt,
                   schedule_report, stdout, calls, file0>>

\* main.py:125-133 and 141-149  the answer prompt embeds
\* json.dumps(updated_data) in branch A, json.dumps(current_memory) in B
\* AnswerData using current_memory in both branches
AnswerDataMemoryOnly == current_memory

AnswerData == IF branch = "A" THEN updated_data ELSE current_memory

Answer ==
    /\ pc = "answer"
    /\ augment_prompt' = JsonDumps(AnswerData)
    /\ \E text \in AnswerTexts : schedule_report' = text
    /\ calls' = Append(calls, Prompt("augment", JsonDumps(AnswerData)))
    /\ trace' = Append(trace, "llm_answer")
    /\ pc' = "print"
    /\ UNCHANGED <<storeVars, run, extracted_activities, json_str,
                   activities_data, current_memory, react_response, branch,
                   updated_data, stdout, file0>>

\* main.py:136-137 and 150-151
PrintReport ==
    /\ pc = "print"
    /\ stdout' = stdout \o <<"Schedule for tomorrow:", schedule_report>>
    /\ trace' = Append(trace, "print")
    /\ pc' = "done"
    /\ UNCHANGED <<storeVars, run, extracted_activities, json_str,
                   activities_data, current_memory, react_response, branch,
                   updated_data, augment_prompt, schedule_report, calls, file0>>

\* main.py:154-155  the script is started again; data.csv is what the
\* earlier runs left, the locals are fresh
Rerun ==
    /\ pc \in {"done", "raised"}
    /\ run < MaxRuns
    /\ run' = run + 1
    /\ pc' = "extract"
    /\ file0' = file
    /\ extracted_activities' = ""
    /\ json_str' = <<>>
    /\ activities_data' = PyNone
    /\ current_memory' = PyNone
    /\ react_response' = <<>>
    /\ branch' = "none"
    /\ updated_data' = PyNone
    /\ augment_prompt' = <<>>
    /\ schedule_report' = ""
    /\ stdout' = <<>>
    /\ calls' = <<>>
    /\ trace' = <<>>
    /\ UNCHANGED storeVars

Next ==
    \/ Extract
    \/ Structure
    \/ ParseJson
    \/ StoreWrite
    \/ Decide
    \/ Retrieve
    \/ Answer
    \/ PrintReport
    \/ Rerun

Spec == Init /\ [][Next]_vars

\* ------------------------------------------------- the Record Store alone
\* save_data_to_csv(data) called directly on data.csv
Save ==
    /\ nsaves < MaxOps
    /\ \E data \in Batches : CallSave(data)
    /\ UNCHANGED mainVars

\* load_data_from_csv() called directly on data.csv
Load ==
    /\ CallLoad
    /\ UNCHANGED mainVars

InitStore == StoreInit /\ MainIdle

NextStore == Save \/ Load

SpecStore == InitStore /\ [][NextStore]_vars

\* ======================================================== checked claims
\* data is a Record Batch: a list whose elements are all dicts
IsRecordBatch(data) ==
    data.k = "list" /\ \A i \in 1..Len(data.items) : data.items[i].k = "dict"

\* a non-empty batch of records with one field set, of at least one field,
\* and string values
StringBatch(data) ==
    /\ IsRecordBatch(data)
    /\ data.items # <<>>
    /\ data.items[1].keys # <<>>
    /\ SameFields(data, data.items[1])
    /\ \A i \in 1..Len(data.items) :
          \A j \in 1..Len(data.items[i].items) : data.items[i].items[j].k = "str"

\* the rows load_data_from_csv returns from file f
Loaded(f) == load_data_from_csv(f).ret

\* list a is a prefix of list b, element by element
IsPrefix(a, b) ==
    /\ Len(a.items) <= Len(b.items)
    /\ \A i \in 1..Len(a.items) : DictEq(a.items[i], b.items[i])

\* the generator's decision text holds NEED_DATA_UPDATE at some position
HasNeedToken(text) ==
    \E i \in 1..Len(text) :
        /\ i + Len(NEED_DATA_UPDATE) - 1 <= Len(text)
        /\ \A j \in 1..Len(NEED_DATA_UPDATE) : text[i + j - 1] = NEED_DATA_UPDATE[j]

\* C1: after save_data_to_csv of a non-empty batch of same-field string
\* records to a destination that did not exist, load_data_from_csv returns
\* the batch: same length, same order, every field value as written.
C1_RoundTrip ==
    (op = "save" /\ ~PathExists(before) /\ StringBatch(arg))
        => (~raised /\ BatchEq(Loaded(file), arg))

\* C2: when the decision text contains NEED_DATA_UPDATE, branch A runs and
\* the answer prompt embeds the table load_data_from_csv returns; for every
\* other text branch B runs, the store is not read, and the prompt embeds
\* the batch this run's extraction produced.
C2_Branching ==
    pc \in {"print", "done"} =>
        IF HasNeedToken(react_response)
        THEN /\ branch = "A"
             /\ op = "load"
             /\ augment_prompt = JsonDumps(Loaded(file))
        ELSE /\ branch = "B"
             /\ op = "save"
             /\ \A i \in 1..Len(trace) : trace[i] # "load"
             /\ current_memory = activities_data
             /\ augment_prompt = JsonDumps(activities_data)

\* branch A ran on a decision text that is more than the bare token, and
\* the table it embedded is not the batch held in memory
C2_Witness ==
    /\ pc = "done"
    /\ branch = "A"
    /\ react_response # NEED_DATA_UPDATE
    /\ augment_prompt = JsonDumps(Loaded(file))
    /\ augment_prompt # JsonDumps(current_memory)

\* C3: when the structuring call's text is not valid JSON, the extraction
\* yields the empty batch and nothing is raised; the store write runs with
\* it (leaving data.csv as it was) and the run goes on to the query steps.
C3_Fallback ==
    (pc \notin {"extract", "structure", "parse"} /\ ~JsonLoads(json_str).ok)
        => /\ activities_data = PyList(<<>>)
           /\ pc # "raised"
           /\ pc # "save" => (file = file0 /\ current_memory = PyList(<<>>))

\* a run whose structuring text was not JSON has printed its report
C3_Witness ==
    /\ pc = "done"
    /\ json_str \in NonJsonSamples
    /\ activities_data = PyList(<<>>)
    /\ Len(calls) = 4

\* C4: save_data_to_csv with an empty batch leaves the destination as it
\* was, absent or not, and load_data_from_csv returns what it returned
\* before the call.
C4_EmptySaveNoOp ==
    (op = "save" /\ arg = PyList(<<>>))
        => (~raised /\ file = before /\ Loaded(file) = Loaded(before))

\* an empty batch was saved onto a table that holds rows
C4_Witness ==
    /\ op = "save"
    /\ arg = PyList(<<>>)
    /\ PathExists(before)
    /\ Loaded(before).items # <<>>
    /\ file = before

C6_LoadAbsent ==
    (op = "load" /\ ~PathExists(before))
        => (ret = PyList(<<>>) /\ ~raised /\ file = Absent)

\* load_data_from_csv has been called while data.csv did not exist
C6_Witness == op = "load" /\ ~PathExists(before) /\ ret = PyList(<<>>)

\* C7: two successive load_data_from_csv calls with no save in between
\* return the same list, and neither call changes the stored table.
C7_LoadRepeatable ==
    (op = "load" /\ prev.op = "load")
        => (ret = prev.ret /\ file = before /\ before = prev.file)

\* two successive loads of a table that holds rows
C7_Witness ==
    /\ op = "load"
    /\ prev.op = "load"
    /\ ret.items # <<>>
    /\ ret = prev.ret

\* C8: after saves onto an initially absent destination, all with the first
\* batch's field set (of at least one field), the file holds one header row, as its first row, and
\* one row per record; load_data_from_csv returns all written records in
\* call order; and the rows returned before the last save are still
\* returned, unchanged and in place, after it.
C8_AppendOnly ==
    (op = "save" /\ uniform /\ written # <<>> /\ written[1].keys # <<>>)
        => LET rows == ReadRows(TranslateNewlines(file.text), 1, ReaderInit).rows
           IN /\ Len(rows) = 1 + Len(written)
              /\ rows[1] = written[1].keys
              /\ BatchEq(Loaded(file), PyList(written))
              /\ IsPrefix(Loaded(before), Loaded(file))

\* C9: whatever text the structuring call returns, what the extraction
\* hands to the store write is a Record Batch, and the store write does not
\* raise.
C9_AlwaysBatch ==
    pc \in {"decide", "raised"} => (IsRecordBatch(activities_data) /\ pc # "raised")

\* C10: a run of main() makes exactly the four generator calls extraction,
\* structuring, decision, answer, each prompt embedding the earlier output;
\* the store is written once between structuring and decision, read at
\* most once (branch A only) between decision and answer, and the report is
\* printed after the answer call.
C10_Ordering ==
    pc \in {"done", "raised"} =>
        /\ trace \in {<<"llm_extract", "llm_json", "save", "llm_react",
                        "load", "llm_answer", "print">>,
                      <<"llm_extract", "llm_json", "save", "llm_react",
                        "llm_answer", "print">>}
        /\ (\E i \in 1..Len(trace) : trace[i] = "load") <=> branch = "A"
        /\ Len(calls) = 4
        /\ calls[1] = Prompt("extract", <<user_input>>)
        /\ calls[2] = Prompt("json", <<extracted_activities>>)
        /\ calls[3] = Prompt("react", <<user_request>>)
        /\ calls[4] = Prompt("augment", augment_prompt)
        /\ stdout = <<"Schedule for tomorrow:", schedule_report>>

====
